---- MODULE Spec2Model ----
(***************************************************************************)
(* A model of kmapper.cover.Cover: the constructor, define_bins and        *)
(* find_entries, with numpy's element-wise arithmetic and broadcasting on  *)
(* one-dimensional arrays and with rounded floating-point arithmetic.      *)
(*                                                                         *)
(* Numbers.  A float is modelled as an integer count of units of 1/One.    *)
(* Every arithmetic operation of the code rounds its exact result to the   *)
(* nearest representable number, ties to even, as IEEE-754 does; the       *)
(* format keeps Precision significant bits (where float64 keeps 53) and    *)
(* has gradual underflow at one unit.                                      *)
(*                                                                         *)
(* Arrays.  A one-dimensional numpy array is a sequence; a scalar operand  *)
(* is a sequence of length 1, which is how broadcasting treats it.  A data *)
(* table is a sequence of rows, each row <<id, v1, ..., vD>>.              *)
(***************************************************************************)
EXTENDS Integers, Sequences, FiniteSets, TLC

VARIABLES args, self, data, ret, entries, warned, peer, peerEntries

vars == <<args, self, data, ret, entries, warned, peer, peerEntries>>

(***************************************************************************)
(* Bounds of the model.                                                    *)
(***************************************************************************)
Precision == 3
MaxRows == 2
MaxCubes == 3

(***************************************************************************)
(* The unit, the marker of an unbounded side of limits (float("inf")), and *)
(* the sets the inputs are drawn from.                                     *)
(***************************************************************************)
One == 2^8
Inf == 2^16

Values == {0, One, One + (One \div 4)}
PercSet == {0, One \div 2, One}
LimitValues == {Inf, One, One + (One \div 4)}
ListCounts == {1, 2}
ListLens == {1, 2, 3}

(***************************************************************************)
(* Floating-point arithmetic.                                              *)
(***************************************************************************)
RECURSIVE Scale(_, _, _)
Scale(n, den, s) ==
    IF n < (2^Precision) * s * den THEN s ELSE Scale(n, den, 2 * s)

RoundAbs(n, den) ==
    LET s == Scale(n, den, 1)
        m == den * s
        f == n \div m
        r == n % m
        up == (2 * r > m) \/ (2 * r = m /\ f % 2 = 1)
    IN  (IF up THEN f + 1 ELSE f) * s

fl(num, den) == IF num < 0 THEN 0 - RoundAbs(0 - num, den) ELSE RoundAbs(num, den)

FAdd(a, b) == fl(a + b, 1)
FSub(a, b) == fl(a - b, 1)
FMul(a, b) == fl(a * b, One)
FDivInt(a, n) == fl(a, n)
FMulInt(c, a) == fl(c * a, 1)

(***************************************************************************)
(* numpy broadcasting of one-dimensional shapes; 0 stands for "operands    *)
(* could not be broadcast together".                                       *)
(***************************************************************************)
BLen(a, b) ==
    IF a = 0 \/ b = 0 THEN 0
    ELSE IF a = b THEN a
    ELSE IF a = 1 THEN b
    ELSE IF b = 1 THEN a
    ELSE 0

Bx(s, i) == IF Len(s) = 1 THEN s[1] ELSE s[i]

(***************************************************************************)
(* An array holds its elements: the function is turned into the tuple of   *)
(* its values, so that they are computed once.                             *)
(***************************************************************************)
Array(f) == f \o <<>>

Clip(x, a_min, a_max) ==
    LET lo == IF x < a_min THEN a_min ELSE x
    IN  IF lo > a_max THEN a_max ELSE lo

(***************************************************************************)
(* Python values.                                                          *)
(***************************************************************************)
None == [t |-> "None"]
PyInt(n) == [t |-> "int", v |-> n]
PyFloat(x) == [t |-> "float", v |-> x]
PyList(s) == [t |-> "list", v |-> s]
NdArray(a) == [t |-> "ndarray", v |-> a]

Truthy(x) ==
    CASE x.t = "None" -> FALSE
      [] x.t = "int" -> x.v # 0
      [] x.t = "float" -> x.v # 0
      [] x.t = "list" -> Len(x.v) > 0
      [] OTHER -> TRUE

Unset == <<>>

(***************************************************************************)
(* Cover.__init__                                                          *)
(***************************************************************************)
InitNCubes(a) == IF Truthy(a.nr_cubes) THEN a.nr_cubes ELSE a.n_cubes

InitPercOverlap(a) == IF Truthy(a.overlap_perc) THEN a.overlap_perc ELSE a.perc_overlap

InitWarned(a) ==
    IF a.overlap_perc # None \/ a.nr_cubes # None THEN {"DeprecationWarning"} ELSE {}

Cover(a) ==
    [n_cubes |-> InitNCubes(a),
     perc_overlap |-> InitPercOverlap(a),
     limits |-> a.limits,
     base_dist |-> Unset,
     overlap_dist |-> Unset,
     chunk_dist |-> Unset,
     d |-> Unset,
     end |-> Unset,
     di |-> Unset,
     nr_dimensions |-> 0]

(***************************************************************************)
(* Data tables.                                                            *)
(***************************************************************************)
Dim(tbl) == Len(tbl[1]) - 1

indexless_data(tbl) == Array([r \in 1..Len(tbl) |-> Tail(tbl[r])])

RECURSIVE MinFrom(_, _, _, _)
MinFrom(tbl, col, r, m) ==
    IF r > Len(tbl) THEN m
    ELSE MinFrom(tbl, col, r + 1, IF tbl[r][col] < m THEN tbl[r][col] ELSE m)

RECURSIVE MaxFrom(_, _, _, _)
MaxFrom(tbl, col, r, m) ==
    IF r > Len(tbl) THEN m
    ELSE MaxFrom(tbl, col, r + 1, IF tbl[r][col] > m THEN tbl[r][col] ELSE m)

ColMin(tbl) == Array([j \in 1..Dim(tbl) |-> MinFrom(tbl, j + 1, 2, tbl[1][j + 1])])
ColMax(tbl) == Array([j \in 1..Dim(tbl) |-> MaxFrom(tbl, j + 1, 2, tbl[1][j + 1])])

(***************************************************************************)
(* Cover.define_bins                                                       *)
(***************************************************************************)
NCubesArr(n) == IF n.t = "list" THEN n.v ELSE <<n.v>>

LimitsArray(lim, mn, mx) ==
    Array([i \in 1..Len(lim) |->
        <<IF lim[i][1] # Inf THEN 0 ELSE mn[i],
          IF lim[i][2] # Inf THEN 0 ELSE mx[i]>>])

ZeroInf(lim) ==
    Array([i \in 1..Len(lim) |->
        <<IF lim[i][1] = Inf THEN 0 ELSE lim[i][1],
          IF lim[i][2] = Inf THEN 0 ELSE lim[i][2]>>])

BoundsArr(lim, mn, mx) ==
    LET limits_array == LimitsArray(lim, mn, mx)
        zeroed == ZeroInf(lim)
    IN  Array([i \in 1..Len(lim) |->
            <<FAdd(zeroed[i][1], limits_array[i][1]),
              FAdd(zeroed[i][2], limits_array[i][2])>>])

LimitsWarning(bounds, mn, mx) ==
    ~ (   (\A i \in 1..Len(mn) : mn[i] >= bounds[1][i])
       \/ (\A i \in 1..Len(mx) : mx[i] <= bounds[2][i]))

LimitsAfter(limits) ==
    IF limits.t = "ndarray" THEN NdArray(ZeroInf(limits.v)) ELSE limits

Bounds(limits, mn, mx) ==
    IF limits.t = "ndarray"
    THEN LET ba == BoundsArr(limits.v, mn, mx)
         IN  <<Array([i \in 1..Len(ba) |-> ba[i][1]]),
               Array([i \in 1..Len(ba) |-> ba[i][2]])>>
    ELSE <<mn, mx>>

DefineBinsWarned(limits, bounds, mn, mx) ==
    IF limits.t = "ndarray" /\ LimitsWarning(bounds, mn, mx)
    THEN {"UserWarning"}
    ELSE {}

BaseDist(bounds, n) ==
    Array([i \in 1..BLen(Len(bounds[1]), Len(n)) |->
        FDivInt(FSub(Bx(bounds[2], i), Bx(bounds[1], i)), Bx(n, i))])

OverlapDist(perc, base) == Array([i \in 1..Len(base) |-> FMul(perc, base[i])])

ChunkDist(base, overlap) ==
    Array([i \in 1..Len(base) |-> FAdd(base[i], FMulInt(2, overlap[i]))])

RECURSIVE product_first_fastest(_)
product_first_fastest(cubes) ==
    IF cubes = <<>>
    THEN << <<>> >>
    ELSE LET rest == product_first_fastest(Tail(cubes))
             n == Head(cubes)
         IN  Array([k \in 1..(n * Len(rest)) |->
                 <<(k - 1) % n>> \o rest[((k - 1) \div n) + 1]])

RECURSIVE product(_)
product(cubes) ==
    IF cubes = <<>>
    THEN << <<>> >>
    ELSE LET rest == product(Tail(cubes))
             n == Len(rest)
         IN  Array([k \in 1..(Head(cubes) * n) |->
                 <<(k - 1) \div n>> \o rest[((k - 1) % n) + 1]])

Outcome(kind, cs, supplied, needed) ==
    [kind |-> kind, coords |-> cs, supplied |-> supplied, needed |-> needed]

NoOutcome == Outcome("none", <<>>, 0, 0)

define_bins(obj, tbl) ==
    LET mn == ColMin(tbl)
        mx == ColMax(tbl)
        bounds == Bounds(obj.limits, mn, mx)
        n == NCubesArr(obj.n_cubes)
        limited == [obj EXCEPT !.limits = LimitsAfter(obj.limits)]
        w == DefineBinsWarned(obj.limits, bounds, mn, mx)
        base == BaseDist(bounds, n)
        overlap == OverlapDist(obj.perc_overlap.v, base)
        done == [limited EXCEPT !.base_dist = base,
                                !.overlap_dist = overlap,
                                !.chunk_dist = ChunkDist(base, overlap),
                                !.d = bounds[1],
                                !.end = bounds[2],
                                !.di = Array([j \in 1..Dim(tbl) |-> j]),
                                !.nr_dimensions = Dim(tbl)]
        cubes == IF obj.n_cubes.t # "list"
                 THEN Array([j \in 1..Dim(tbl) |-> obj.n_cubes.v])
                 ELSE obj.n_cubes.v
    IN  IF BLen(Len(bounds[1]), Len(n)) = 0
        THEN [obj |-> limited, ret |-> Outcome("ValueError", <<>>, 0, 0), warned |-> w]
        ELSE IF obj.n_cubes.t = "list" /\ Len(obj.n_cubes.v) # Dim(tbl)
        THEN [obj |-> done,
              ret |-> Outcome("AssertionError", <<>>, Len(obj.n_cubes.v), Dim(tbl)),
              warned |-> w]
        ELSE [obj |-> done, ret |-> Outcome("ok", product(cubes), 0, 0), warned |-> w]

(***************************************************************************)
(* Cover.find_entries                                                      *)
(***************************************************************************)
Found(kind, cube, rows) == [kind |-> kind, cube |-> cube, rows |-> rows]

NoFound == Found("none", <<>>, <<>>)

LowerUnclipped(obj, cube) ==
    Array([i \in 1..BLen(BLen(Len(obj.d), BLen(Len(cube), Len(obj.base_dist))),
                         Len(obj.overlap_dist)) |->
        FSub(FAdd(Bx(obj.d, i), FMulInt(Bx(cube, i), Bx(obj.base_dist, i))),
             Bx(obj.overlap_dist, i))])

UpperUnclipped(obj, cube) ==
    LET lower == LowerUnclipped(obj, cube)
    IN  Array([i \in 1..BLen(Len(lower), Len(obj.chunk_dist)) |->
            FAdd(Bx(lower, i), Bx(obj.chunk_dist, i))])

ClipArr(x, a_min, a_max) ==
    Array([i \in 1..BLen(Len(x), BLen(Len(a_min), Len(a_max))) |->
        Clip(Bx(x, i), Bx(a_min, i), Bx(a_max, i))])

LowerBound(obj, cube) == ClipArr(LowerUnclipped(obj, cube), obj.d, obj.end)

UpperBound(obj, cube) == ClipArr(UpperUnclipped(obj, cube), obj.d, obj.end)

RowInCube_exclusive(row, di, lower, upper) ==
    LET sel == Array([k \in 1..Len(di) |-> row[di[k] + 1]])
    IN  \A k \in 1..BLen(Len(sel), BLen(Len(lower), Len(upper))) :
            Bx(sel, k) >= Bx(lower, k) /\ Bx(sel, k) < Bx(upper, k)

RowInCube(row, di, lower, upper) ==
    LET sel == Array([k \in 1..Len(di) |-> row[di[k] + 1]])
    IN  \A k \in 1..BLen(Len(sel), BLen(Len(lower), Len(upper))) :
            Bx(sel, k) >= Bx(lower, k) /\ Bx(sel, k) <= Bx(upper, k)

RECURSIVE Mask(_, _, _, _)
Mask(tbl, di, lower, upper) ==
    IF tbl = <<>>
    THEN <<>>
    ELSE (IF RowInCube(Head(tbl), di, lower, upper) THEN <<Head(tbl)>> ELSE <<>>)
         \o Mask(Tail(tbl), di, lower, upper)

Returned(obj, tbl, found) == [obj |-> obj, data |-> tbl, found |-> found]

find_entries_inplace(obj, tbl, cube) ==
    LET lower == LowerBound(obj, cube)
        upper == UpperBound(obj, cube)
    IN  Returned([obj EXCEPT !.d = lower], tbl,
                 Found("ok", cube, Mask(tbl, obj.di, lower, upper)))

find_entries(obj, tbl, cube) ==
    LET lower == LowerBound(obj, cube)
        upper == UpperBound(obj, cube)
    IN  IF obj.base_dist = Unset
        THEN Returned(obj, tbl, Found("AttributeError", cube, <<>>))
        ELSE IF Len(lower) = 0 \/ Len(upper) = 0
        THEN Returned(obj, tbl, Found("ValueError", cube, <<>>))
        ELSE IF \E k \in 1..Len(obj.di) : obj.di[k] > Dim(tbl)
        THEN Returned(obj, tbl, Found("IndexError", cube, <<>>))
        ELSE IF BLen(Len(obj.di), BLen(Len(lower), Len(upper))) = 0
        THEN Returned(obj, tbl, Found("ValueError", cube, <<>>))
        ELSE Returned(obj, tbl, Found("ok", cube, Mask(tbl, obj.di, lower, upper)))

(***************************************************************************)
(* Inputs.                                                                 *)
(***************************************************************************)
Range(s) == {s[i] : i \in 1..Len(s)}

Rows1 == {<<v>> : v \in Values}
Rows2 == {<<One, One>>, <<One, One + (One \div 4)>>, <<One + (One \div 4), One>>}

TablesOver(rows) ==
    UNION {{Array([r \in 1..n |-> <<r>> \o f[r]]) : f \in [1..n -> rows]} : n \in 1..MaxRows}

Tables == TablesOver(Rows1) \cup TablesOver(Rows2)

NCubesInts == {PyInt(k) : k \in 1..MaxCubes}
NCubesLarge == {PyInt(MaxCubes - 1), PyInt(MaxCubes)}
NCubesLists == UNION {{PyList(Array(s)) : s \in [1..n -> ListCounts]} : n \in ListLens}
Percs == {PyFloat(p) : p \in PercSet}

LimitRows == {<<lo, hi>> : lo \in LimitValues, hi \in {Inf, One + (One \div 4)}}
LimitRowsSmall == {<<Inf, Inf>>, <<One, One + (One \div 4)>>}
LimitsSet ==
    {None} \cup {NdArray(<<r>>) : r \in LimitRows}
           \cup {NdArray(<<r, <<Inf, One>> >>) : r \in LimitRowsSmall}

Args(n, p, l, nr, op) ==
    [n_cubes |-> n, perc_overlap |-> p, limits |-> l, nr_cubes |-> nr, overlap_perc |-> op]

ArgsPlain == {Args(n, p, None, None, None) : n \in NCubesInts \cup NCubesLists, p \in Percs}

ArgsLimits == {Args(n, p, l, None, None) : n \in NCubesLarge, p \in Percs, l \in LimitsSet}

ArgsLegacy ==
    {Args(n, p, None, nr, op) :
        n \in {PyInt(1), PyList(<<1, 2>>)},
        p \in Percs,
        nr \in {None, PyInt(0), PyInt(2), PyList(<<>>), PyList(<<2, 1>>)},
        op \in {None} \cup Percs}

(***************************************************************************)
(* The state after construction, holding the data table the caller works   *)
(* on, and the two operations on the object.                               *)
(***************************************************************************)
Fits(limits, tbl) == limits.t = "ndarray" => Len(limits.v) = Dim(tbl)

InitWith(S) ==
    /\ args \in S
    /\ data \in {tbl \in Tables : Fits(args.limits, tbl)}
    /\ self = Cover(args)
    /\ warned = InitWarned(args)
    /\ ret = NoOutcome
    /\ entries = NoFound
    /\ peer = None
    /\ peerEntries = NoFound

Init == InitWith(ArgsPlain)
InitLimits == InitWith(ArgsLimits)
InitLegacy == InitWith(ArgsLegacy)

DefineBins ==
    /\ \E r \in {define_bins(self, data)} :
           /\ self' = r.obj
           /\ ret' = r.ret
           /\ warned' = r.warned
    /\ entries' = NoFound
    /\ UNCHANGED <<args, data, peer, peerEntries>>

FindEntries(cube) ==
    /\ ret.kind = "ok"
    /\ \E r \in {find_entries(self, data, cube)} :
           /\ self' = r.obj
           /\ data' = r.data
           /\ entries' = r.found
    /\ warned' = {}
    /\ UNCHANGED <<args, ret, peer, peerEntries>>

Next ==
    \/ DefineBins
    \/ \E cube \in Range(ret.coords) : FindEntries(cube)

Spec == Init /\ [][Next]_vars
SpecLimits == InitLimits /\ [][Next]_vars
SpecLegacy == InitLegacy /\ [][Next]_vars

(***************************************************************************)
(* Two objects constructed alike but for perc_overlap, self with the       *)
(* smaller fraction and peer with the larger, driven together on the same  *)
(* data table.                                                             *)
(***************************************************************************)
ArgsPair == {Args(n, p, l, None, None) : n \in NCubesInts, p \in Percs, l \in LimitsSet}

InitPair ==
    /\ args \in ArgsPair
    /\ data \in {tbl \in Tables : Fits(args.limits, tbl)}
    /\ self = Cover(args)
    /\ \E p \in Percs :
           /\ p.v >= args.perc_overlap.v
           /\ peer = Cover([args EXCEPT !.perc_overlap = p])
    /\ warned = InitWarned(args)
    /\ ret = NoOutcome
    /\ entries = NoFound
    /\ peerEntries = NoFound

DefineBinsBoth ==
    /\ \E r \in {define_bins(self, data)} :
           /\ self' = r.obj
           /\ ret' = r.ret
           /\ warned' = r.warned
    /\ peer' = define_bins(peer, data).obj
    /\ entries' = NoFound
    /\ peerEntries' = NoFound
    /\ UNCHANGED <<args, data>>

FindEntriesBoth(cube) ==
    /\ ret.kind = "ok"
    /\ \E r \in {find_entries(self, data, cube)} :
           /\ self' = r.obj
           /\ data' = r.data
           /\ entries' = r.found
    /\ \E r \in {find_entries(peer, data, cube)} :
           /\ peer' = r.obj
           /\ peerEntries' = r.found
    /\ warned' = {}
    /\ UNCHANGED <<args, ret>>

NextPair ==
    \/ DefineBinsBoth
    \/ \E cube \in Range(ret.coords) : FindEntriesBoth(cube)

SpecPair == InitPair /\ [][NextPair]_vars

(***************************************************************************)
(* Properties.                                                             *)
(***************************************************************************)
Geometry(obj) ==
    <<obj.base_dist, obj.overlap_dist, obj.chunk_dist, obj.d, obj.end, obj.di,
      obj.nr_dimensions>>

CubeCounts(n, dims) == IF n.t = "list" THEN n.v ELSE Array([j \in 1..dims |-> n.v])

RECURSIVE ProductOf(_)
ProductOf(s) == IF s = <<>> THEN 1 ELSE Head(s) * ProductOf(Tail(s))

LexLess(a, b) ==
    \E k \in 1..Len(a) : a[k] < b[k] /\ \A j \in 1..(k - 1) : a[j] = b[j]

LastWasDefineBins == ret.kind # "none" /\ entries.kind = "none"

\* C1: whenever n_cubes is an integer or a list with one entry per lens
\* dimension, define_bins succeeds and returns the Cartesian product of
\* range(n_cubes[d]): as many coordinates as the product of the counts, each
\* of length D with entry d in [0, n_cubes[d]), in strictly increasing
\* lexicographic order (hence without repetition).
C1_CartesianProduct ==
    (ret.kind # "none" /\ (self.n_cubes.t = "int" \/ Len(self.n_cubes.v) = Dim(data)))
    => LET cubes == CubeCounts(self.n_cubes, Dim(data))
           cs == ret.coords
       IN  /\ ret.kind = "ok"
           /\ Len(cs) = ProductOf(cubes)
           /\ \A i \in 1..Len(cs) :
                  /\ Len(cs[i]) = Dim(data)
                  /\ \A d \in 1..Dim(data) : cs[i][d] \in 0..(cubes[d] - 1)
           /\ \A i \in 1..Len(cs), j \in 1..Len(cs) : i # j => cs[i] # cs[j]
           /\ \A i \in 1..(Len(cs) - 1) : LexLess(cs[i], cs[i + 1])

C1_Witness ==
    /\ ret.kind = "ok"
    /\ self.n_cubes.t = "list"
    /\ Dim(data) = 2
    /\ self.n_cubes.v[1] # self.n_cubes.v[2]
    /\ Len(ret.coords) = 2

C2_Unclipped(obj, c, d) ==
    FSub(FAdd(obj.d[d], FMulInt(c[d], obj.base_dist[d])), obj.overlap_dist[d])

C2_Lower(obj, c, d) == Clip(C2_Unclipped(obj, c, d), obj.d[d], obj.end[d])

C2_Upper(obj, c, d) ==
    Clip(FAdd(C2_Unclipped(obj, c, d), obj.chunk_dist[d]), obj.d[d], obj.end[d])

C2_InBin(obj, c, row) ==
    \A d \in 1..(Len(row) - 1) :
        C2_Lower(obj, c, d) <= row[d + 1] /\ row[d + 1] <= C2_Upper(obj, c, d)

\* C2: find_entries(data, c) for a coordinate c returned by define_bins(data)
\* succeeds and returns, with their identifiers and in their original order,
\* exactly the rows whose value on every lens dimension lies between the
\* clipped lower and the clipped upper bound of the bin, both bounds included.
C2_FindEntriesInclusive ==
    entries.kind # "none"
    => /\ entries.kind = "ok"
       /\ entries.rows = SelectSeq(data, LAMBDA row : C2_InBin(self, entries.cube, row))

C2_Witness ==
    /\ entries.kind = "ok"
    /\ Dim(data) = 2
    /\ args.limits # None
    /\ \E i \in 1..Len(data) :
           /\ data[i] \notin Range(entries.rows)
           /\ \E d \in 1..2 : C2_Lower(self, entries.cube, d) <= data[i][d + 1]
                              /\ data[i][d + 1] <= C2_Upper(self, entries.cube, d)
    /\ \E i \in 1..Len(entries.rows) :
           entries.rows[i][2] = C2_Upper(self, entries.cube, 1)

C3_RowsOf(obj, c) == Range(find_entries(obj, data, c).found.rows)

\* C3: with limits=None, every row of data is returned by find_entries for at
\* least one coordinate that define_bins(data) returned.
C3_Coverage ==
    (ret.kind = "ok" /\ args.limits = None)
    => \A i \in 1..Len(data) :
           \E k \in 1..Len(ret.coords) : data[i] \in C3_RowsOf(self, ret.coords[k])

\* C4: a define_bins call leaves the stored limits as they were, and a call
\* that follows a successful call on the same data yields the same geometry
\* and the same coordinate list.
C4_Deterministic ==
    [][DefineBins =>
          /\ self'.limits = self.limits
          /\ (ret.kind = "ok" => Geometry(self') = Geometry(self) /\ ret' = ret)]_vars

C5_Side(k, d, derived) ==
    IF args.limits = None THEN derived
    ELSE IF args.limits.v[d][k] = Inf THEN derived
    ELSE args.limits.v[d][k]

\* C5: after define_bins the lower and upper bound of every dimension are the
\* configured limit of that side, or the data minimum and maximum where the
\* side is unbounded or limits is absent; base, overlap and chunk width are
\* (upper - lower) / n_cubes[d], perc_overlap * base and base + 2 * overlap.
C5_BoundsDerived ==
    ret.kind = "ok"
    => \A d \in 1..Dim(data) :
           /\ self.d[d] = C5_Side(1, d, ColMin(data)[d])
           /\ self.end[d] = C5_Side(2, d, ColMax(data)[d])
           /\ self.base_dist[d] =
                  FDivInt(FSub(self.end[d], self.d[d]),
                          CubeCounts(self.n_cubes, Dim(data))[d])
           /\ self.overlap_dist[d] = FMul(self.perc_overlap.v, self.base_dist[d])
           /\ self.chunk_dist[d] =
                  FAdd(self.base_dist[d], FMulInt(2, self.overlap_dist[d]))

\* C6: with limits configured, define_bins succeeds and warns exactly when on
\* some dimension the data minimum is below the lower bound or the data
\* maximum is above the upper bound.
C6_WarnsIffNotEnclosed ==
    (LastWasDefineBins /\ args.limits # None)
    => /\ ret.kind = "ok"
       /\ ("UserWarning" \in warned)
          <=> (\E d \in 1..Dim(data) :
                   ColMin(data)[d] < self.d[d] \/ ColMax(data)[d] > self.end[d])

\* C7: with a per-dimension n_cubes list whose length differs from the number
\* of lens dimensions, define_bins fails with the assertion that names the
\* supplied and the needed length, returns no coordinates and leaves the
\* stored geometry as it was.
C7_MismatchFailsCleanly ==
    [][(DefineBins /\ self.n_cubes.t = "list" /\ Len(self.n_cubes.v) # Dim(data)) =>
          /\ ret'.kind = "AssertionError"
          /\ ret'.supplied = Len(self.n_cubes.v)
          /\ ret'.needed = Dim(data)
          /\ ret'.coords = <<>>
          /\ Geometry(self') = Geometry(self)]_vars

\* C8: a supplied nr_cubes is the stored n_cubes and a supplied overlap_perc is
\* the stored perc_overlap, whatever the value; with neither supplied the
\* canonical arguments are stored; the constructor warns of the deprecation
\* exactly when a legacy name is supplied.
C8_LegacySynonyms ==
    /\ args.nr_cubes # None => self.n_cubes = args.nr_cubes
    /\ args.overlap_perc # None => self.perc_overlap = args.overlap_perc
    /\ (args.nr_cubes = None /\ args.overlap_perc = None)
       => self.n_cubes = args.n_cubes /\ self.perc_overlap = args.perc_overlap
    /\ ret.kind = "none"
       => (("DeprecationWarning" \in warned)
           <=> (args.nr_cubes # None \/ args.overlap_perc # None))

C9_Adjacent(a, b) ==
    \E d \in 1..Len(a) : b[d] = a[d] + 1 /\ \A j \in 1..Len(a) : j # d => a[j] = b[j]

\* C9: with the same data, n_cubes and limits, every bin under the smaller
\* overlap fraction holds a subset of the rows it holds under the larger one,
\* and so do the rows common to two adjacent bins.
C9_OverlapMonotone ==
    /\ entries.kind = "ok"
       => /\ peerEntries.kind = "ok"
          /\ Range(entries.rows) \subseteq Range(peerEntries.rows)
          /\ Len(entries.rows) <= Len(peerEntries.rows)
    /\ ret.kind = "ok"
       => \A a \in Range(ret.coords), b \in Range(ret.coords) :
              C9_Adjacent(a, b)
              => (C3_RowsOf(self, a) \cap C3_RowsOf(self, b))
                     \subseteq (C3_RowsOf(peer, a) \cap C3_RowsOf(peer, b))

\* C10: a find_entries call changes neither the object (geometry and
\* configuration) nor the data table nor the coordinate it was given, so that
\* the same call on the state it leaves gives the same result again.
C10_FindEntriesReadOnly ==
    [][entries'.kind # "none" =>
          /\ self' = self
          /\ data' = data
          /\ entries'.cube \in Range(ret.coords)
          /\ entries' = find_entries(self', data', entries'.cube).found
          /\ UNCHANGED <<args, ret>>]_vars

C10_Witness ==
    /\ entries.kind = "ok"
    /\ args.limits # None
    /\ Len(ret.coords) > 1
    /\ Len(entries.rows) > 0

====
